---- MODULE Spec2Model ----
(***************************************************************************)
(* Model of src/fenwick.py: class FenwickTree (a Fenwick / Binary Indexed  *)
(* Tree over Python ints).  Python lists are 0-based; the sequences here   *)
(* are 1-based, so Python's list[k] is sequence[k + 1] (see PyPos).        *)
(* Elements are Python ints (unbounded), so no arithmetic wraps.           *)
(***************************************************************************)
EXTENDS Integers, Sequences, FiniteSets, TLC

\* ---------------------------------------------------------------- bounds
MaxN == 4
MaxVal == 1
\* longest list built when callers pass out-of-range indices
MaxNAny == 2
\* how many out-of-range updates that return normally a run may contain
MaxWild == 1

Vals == (0 - 1)..MaxVal
\* whether an index faults does not depend on the elements: two values are
\* enough where callers pass out-of-range indices
ValsAny == {0, 1}
\* every index a caller may pass, in range or not (negative ones included)
AnyIndex == (0 - (MaxNAny + 1))..MaxNAny

VARIABLES tree, lsb, S, op, args, fault, ret, trace, delta, preTree, repeat, wild

vars == <<tree, lsb, S, op, args, fault, ret, trace, delta, preTree, repeat, wild>>

\* ------------------------------------------------- Python list indexing
\* list[k] raises IndexError unless -len <= k < len
InBounds(seq, k) == (0 - Len(seq)) <= k /\ k < Len(seq)

\* position in the 1-based sequence of Python's list[k] (negative k wraps)
PyPos(seq, k) == IF k >= 0 THEN k + 1 ELSE Len(seq) + k + 1

\* ------------------------------------------------------- construction
\* variant: b += 1 in place of b <<= 1
RECURSIVE LsbLoop_Increment(_, _)
LsbLoop_Increment(n, b) == IF n % 2 = 1 THEN b ELSE LsbLoop_Increment(n \div 2, b + 1)

\* while n & 1 != 1: n >>= 1; b <<= 1
RECURSIVE LsbLoop(_, _)
LsbLoop(n, b) == IF n % 2 = 1 THEN b ELSE LsbLoop(n \div 2, b * 2)

\* for n in range(1, len(nums) + 1): ... self._lsb.append(b)
LsbTable(len) == [n \in 1..len |-> LsbLoop(n, 1)]

\* variant: `if j < n` in place of `if j <= n`
RECURSIVE MakeTreeLoop_Strict(_, _, _)
MakeTreeLoop_Strict(t, l, i) ==
    IF i > Len(t) THEN t
    ELSE LET j == i + l[i] IN
         IF j < Len(t)
         THEN MakeTreeLoop_Strict([t EXCEPT ![j] = @ + t[i]], l, i + 1)
         ELSE MakeTreeLoop_Strict(t, l, i + 1)

\* body of the for loop of _make_tree, from i up to n
RECURSIVE MakeTreeLoop(_, _, _)
MakeTreeLoop(t, l, i) ==
    IF i > Len(t) THEN t
    ELSE LET j == i + l[PyPos(l, i - 1)] IN
         IF j <= Len(t)
         THEN MakeTreeLoop([t EXCEPT ![PyPos(t, j - 1)] = @ + t[PyPos(t, i - 1)]], l, i + 1)
         ELSE MakeTreeLoop(t, l, i + 1)

MakeTree(t, l) == MakeTreeLoop(t, l, 1)

\* FenwickTree(nums): the pair of fields after __init__
Build(nums) == LET l == LsbTable(Len(nums)) IN [tree |-> MakeTree(nums, l), lsb |-> l]

\* ---------------------------------------------------------- prefix_sum
\* variant: i -= 1 in place of i -= self._lsb[i - 1]
RECURSIVE PrefixSumLoop_Linear(_, _, _, _, _)
PrefixSumLoop_Linear(t, l, i, res, tr) ==
    IF ~(i > 0) THEN [fault |-> FALSE, res |-> res, trace |-> tr]
    ELSE IF ~InBounds(t, i - 1) THEN [fault |-> TRUE, res |-> 0, trace |-> tr]
    ELSE PrefixSumLoop_Linear(t, l, i - 1, res + t[PyPos(t, i - 1)], Append(tr, i))

\* the while loop of prefix_sum; trace lists the values of i at each iteration
RECURSIVE PrefixSumLoop(_, _, _, _, _)
PrefixSumLoop(t, l, i, res, tr) ==
    IF ~(i > 0) THEN [fault |-> FALSE, res |-> res, trace |-> tr]
    ELSE IF ~InBounds(t, i - 1) THEN [fault |-> TRUE, res |-> 0, trace |-> tr]
    ELSE IF ~InBounds(l, i - 1) THEN [fault |-> TRUE, res |-> 0, trace |-> tr]
    ELSE PrefixSumLoop(t, l, i - l[PyPos(l, i - 1)], res + t[PyPos(t, i - 1)], Append(tr, i))

prefix_sum(t, l, index) == PrefixSumLoop(t, l, index + 1, 0, <<>>)

\* ----------------------------------------------------------- range_sum
\* variant: prefix_sum(left) in place of prefix_sum(left - 1)
range_sum_OffByOne(t, l, left, right) ==
    LET r == prefix_sum(t, l, right) IN
    IF r.fault THEN [fault |-> TRUE, res |-> 0]
    ELSE LET lf == IF left > 0 THEN prefix_sum(t, l, left)
                   ELSE [fault |-> FALSE, res |-> 0, trace |-> <<>>] IN
         IF lf.fault THEN [fault |-> TRUE, res |-> 0]
         ELSE [fault |-> FALSE, res |-> r.res - lf.res]

range_sum(t, l, left, right) ==
    LET r == prefix_sum(t, l, right) IN
    IF r.fault THEN [fault |-> TRUE, res |-> 0]
    ELSE LET lf == IF left > 0 THEN prefix_sum(t, l, left - 1)
                   ELSE [fault |-> FALSE, res |-> 0, trace |-> <<>>] IN
         IF lf.fault THEN [fault |-> TRUE, res |-> 0]
         ELSE [fault |-> FALSE, res |-> r.res - lf.res]

\* -------------------------------------------------------------- update
\* variant: i += 1 in place of i += self._lsb[i - 1]
RECURSIVE UpdateLoop_StepOne(_, _, _, _, _)
UpdateLoop_StepOne(t, l, i, x, tr) ==
    IF ~(i <= Len(t)) THEN [fault |-> FALSE, tree |-> t, trace |-> tr, x |-> x]
    ELSE IF ~InBounds(t, i - 1) THEN [fault |-> TRUE, tree |-> t, trace |-> tr, x |-> x]
    ELSE UpdateLoop_StepOne([t EXCEPT ![PyPos(t, i - 1)] = @ + x], l, i + 1, x, Append(tr, i))

\* variant: `while i <= len(self._tree) + 1`, one iteration too many
RECURSIVE UpdateLoop_Overrun(_, _, _, _, _)
UpdateLoop_Overrun(t, l, i, x, tr) ==
    IF ~(i <= Len(t) + 1) THEN [fault |-> FALSE, tree |-> t, trace |-> tr, x |-> x]
    ELSE IF ~InBounds(t, i - 1) THEN [fault |-> TRUE, tree |-> t, trace |-> tr, x |-> x]
    ELSE UpdateLoop_Overrun([t EXCEPT ![PyPos(t, i - 1)] = @ + x], l,
                            i + l[PyPos(l, i - 1)], x, Append(tr, i))

\* the while loop of update; `self._tree[i - 1] += x` reads before it writes
RECURSIVE UpdateLoop(_, _, _, _, _)
UpdateLoop(t, l, i, x, tr) ==
    IF ~(i <= Len(t)) THEN [fault |-> FALSE, tree |-> t, trace |-> tr, x |-> x]
    ELSE IF ~InBounds(t, i - 1) THEN [fault |-> TRUE, tree |-> t, trace |-> tr, x |-> x]
    ELSE LET t2 == [t EXCEPT ![PyPos(t, i - 1)] = @ + x] IN
         IF ~InBounds(l, i - 1)
         THEN [fault |-> TRUE, tree |-> t2, trace |-> Append(tr, i), x |-> x]
         ELSE UpdateLoop(t2, l, i + l[PyPos(l, i - 1)], x, Append(tr, i))

\* variant: x = val, the new value taken for the difference
update_AsDelta(t, l, index, val) ==
    LET rs == range_sum(t, l, index, index) IN
    IF rs.fault THEN [fault |-> TRUE, tree |-> t, trace |-> <<>>, x |-> 0]
    ELSE UpdateLoop(t, l, index + 1, val, <<>>)

update(t, l, index, val) ==
    LET rs == range_sum(t, l, index, index) IN
    IF rs.fault THEN [fault |-> TRUE, tree |-> t, trace |-> <<>>, x |-> 0]
    ELSE UpdateLoop(t, l, index + 1, val - rs.res, <<>>)

\* ------------------------------------------------------- state machine
RECURSIVE SeqsUpTo(_, _)
SeqsUpTo(n, vals) == IF n = 0 THEN {<<>>} ELSE SeqsUpTo(n - 1, vals) \cup [1..n -> vals]

\* state right after FenwickTree(nums), for every nums of length 0..maxLen
Constructed(maxLen, vals) ==
    \E nums \in SeqsUpTo(maxLen, vals) :
        /\ tree = Build(nums).tree
        /\ lsb = Build(nums).lsb
        /\ S = nums
        /\ op = "build"
        /\ args = <<>>
        /\ fault = FALSE
        /\ ret = 0
        /\ trace = <<>>
        /\ delta = 0
        /\ preTree = Build(nums).tree
        /\ repeat = FALSE
        /\ wild = 0

Init == Constructed(MaxN, Vals)

\* variant: `self._tree[i - 1] += res`, the sum accumulated into the cell read
DoPrefixSum_InPlace(index) ==
    LET r == prefix_sum(tree, lsb, index) IN
    /\ op' = "prefix_sum"
    /\ args' = <<index>>
    /\ fault' = r.fault
    /\ ret' = r.res
    /\ trace' = r.trace
    /\ delta' = 0
    /\ preTree' = tree
    /\ repeat' = FALSE
    /\ tree' = IF r.trace = <<>> THEN tree
               ELSE [tree EXCEPT ![PyPos(tree, r.trace[Len(r.trace)] - 1)] = @ + r.res]
    /\ UNCHANGED <<lsb, S, wild>>

DoPrefixSum(index) ==
    LET r == prefix_sum(tree, lsb, index) IN
    /\ op' = "prefix_sum"
    /\ args' = <<index>>
    /\ fault' = r.fault
    /\ ret' = r.res
    /\ trace' = r.trace
    /\ delta' = 0
    /\ preTree' = tree
    /\ repeat' = FALSE
    /\ UNCHANGED <<tree, lsb, S, wild>>

DoRangeSum(left, right) ==
    LET r == range_sum(tree, lsb, left, right) IN
    /\ op' = "range_sum"
    /\ args' = <<left, right>>
    /\ fault' = r.fault
    /\ ret' = r.res
    /\ trace' = <<>>
    /\ delta' = 0
    /\ preTree' = tree
    /\ repeat' = FALSE
    /\ UNCHANGED <<tree, lsb, S, wild>>

DoUpdate(index, val) ==
    LET r == update(tree, lsb, index, val) IN
    /\ op' = "update"
    /\ args' = <<index, val>>
    /\ fault' = r.fault
    /\ ret' = 0
    /\ trace' = r.trace
    /\ delta' = r.x
    /\ preTree' = tree
    /\ repeat' = (op = "update" /\ ~fault /\ args = <<index, val>>)
    /\ tree' = r.tree
    /\ S' = IF ~r.fault /\ 0 <= index /\ index < Len(S)
            THEN [S EXCEPT ![index + 1] = val] ELSE S
    /\ wild' = IF ~r.fault /\ ~(0 <= index /\ index < Len(S)) THEN wild + 1 ELSE wild
    /\ UNCHANGED lsb

\* callers that respect the contract on index (0 <= index < N); an inverted
\* range (left > right) is still in range
InRange == 0..(Len(tree) - 1)

QueryPrefix == \E index \in InRange : DoPrefixSum(index)
QueryRange == \E left \in InRange : \E right \in InRange : DoRangeSum(left, right)
CallUpdate == \E index \in InRange : \E val \in Vals : DoUpdate(index, val)

Next == QueryPrefix \/ QueryRange \/ CallUpdate

Spec == Init /\ [][Next]_vars

\* callers that pass any integer as an index
AnyPrefix == \E index \in AnyIndex : DoPrefixSum(index)
AnyRange == \E left \in AnyIndex : \E right \in AnyIndex : DoRangeSum(left, right)
\* a wrapped negative index adds val to tree again and again, so a run holds
\* at most MaxWild such calls
AnyUpdate == \E index \in AnyIndex : \E val \in ValsAny : DoUpdate(index, val) /\ wild' <= MaxWild

NextAny == AnyPrefix \/ AnyRange \/ AnyUpdate

InitAny == Constructed(MaxNAny, ValsAny)

SpecAny == InitAny /\ [][NextAny]_vars

\* ------------------------------------------------ reference arithmetic
N == Len(tree)

\* s[a] + ... + s[b] of a 1-based sequence (0 when a > b)
RECURSIVE SumS(_, _, _)
SumS(s, a, b) == IF a > b THEN 0 ELSE s[b] + SumS(s, a, b - 1)

RECURSIVE IsPow2(_)
IsPow2(p) == p = 1 \/ (p > 1 /\ p % 2 = 0 /\ IsPow2(p \div 2))

\* the largest power of two dividing n >= 1
LowestSetBit(n) ==
    CHOOSE p \in 1..n : /\ IsPow2(p) /\ n % p = 0
                        /\ \A q \in (p + 1)..n : ~(IsPow2(q) /\ n % q = 0)

RECURSIVE PopCount(_)
PopCount(n) == IF n = 0 THEN 0 ELSE (n % 2) + PopCount(n \div 2)

RECURSIVE FloorLog2(_)
FloorLog2(n) == IF n <= 1 THEN 0 ELSE 1 + FloorLog2(n \div 2)

Returned(r) == ~r.fault

TypeOK ==
    /\ Len(tree) = Len(lsb)
    /\ op \in {"build", "prefix_sum", "range_sum", "update"}
    /\ fault \in BOOLEAN

\* ---------------------------------------------------------------- claims

\* C1: for every 0 <= i < N, prefix_sum(i) returns S[0] + ... + S[i], right
\* after construction and after any sequence of in-range updates mirrored in S;
\* the value a prefix_sum call returned is that sum.
C1_PrefixSumIsOracleSum ==
    /\ \A i \in 0..(N - 1) :
          LET r == prefix_sum(tree, lsb, i) IN Returned(r) /\ r.res = SumS(S, 1, i + 1)
    /\ (op = "prefix_sum" => ~fault /\ ret = SumS(S, 1, args[1] + 1))

\* an update has just moved element 0 and rewritten two cells of tree
C1_Witness ==
    /\ op = "update" /\ ~fault /\ args[1] = 0 /\ delta # 0 /\ Len(trace) >= 2
    /\ N >= 3 /\ prefix_sum(tree, lsb, N - 1).res # 0

\* C2: for all 0 <= left <= right < N, range_sum(left, right) returns
\* S[left] + ... + S[right], left = 0 included, after construction and after
\* any sequence of in-range updates.
C2_RangeSumIsOracleSum ==
    /\ \A left \in 0..(N - 1) : \A right \in left..(N - 1) :
          LET r == range_sum(tree, lsb, left, right) IN
          Returned(r) /\ r.res = SumS(S, left + 1, right + 1)
    /\ (op = "range_sum" /\ args[1] <= args[2]
          => ~fault /\ ret = SumS(S, args[1] + 1, args[2] + 1))

C2_Witness ==
    /\ op = "range_sum" /\ args[1] > 0 /\ args[1] < args[2] /\ ret # 0 /\ S[1] # 0

\* C3: after update(i, v) with 0 <= i < N, range_sum(i, i) is v, and every
\* range_sum(left, right) with i outside [left, right] is what it was before
\* the call.
C3_UpdateReplacesOneElement ==
    op = "update" =>
        LET i == args[1]
            v == args[2] IN
        /\ ~fault
        /\ range_sum(tree, lsb, i, i) = [fault |-> FALSE, res |-> v]
        /\ \A left \in 0..(N - 1) : \A right \in left..(N - 1) :
              (i < left \/ right < i)
                  => range_sum(tree, lsb, left, right) = range_sum(preTree, lsb, left, right)

C3_Witness ==
    /\ op = "update" /\ delta # 0 /\ N >= 3 /\ args[1] = 1 /\ Len(trace) >= 2

\* C6: update(i, v) called again right after update(i, v) computes the
\* difference 0, leaves tree as it was, and so leaves every prefix_sum and
\* range_sum result as it was after the first call.
C6_RepeatedUpdateIsIdempotent ==
    repeat =>
        /\ ~fault
        /\ delta = 0
        /\ tree = preTree
        /\ \A k \in 0..(N - 1) : prefix_sum(tree, lsb, k) = prefix_sum(preTree, lsb, k)
        /\ \A left \in 0..(N - 1) : \A right \in left..(N - 1) :
              range_sum(tree, lsb, left, right) = range_sum(preTree, lsb, left, right)

C6_Witness ==
    /\ repeat /\ op = "update" /\ args[2] # 0 /\ N >= 2

\* C8: after construction and after every in-range update, lsb[i] is the
\* largest power of two dividing i + 1, tree[i] is S[i + 1 - lsb[i]] + ... +
\* S[i], and tree is the array that building from S produces.
C8_TreeHoldsBlockSums ==
    /\ \A k \in 1..N :
          /\ lsb[k] = LowestSetBit(k)
          /\ tree[k] = SumS(S, k + 1 - lsb[k], k)
    /\ tree = Build(S).tree
    /\ lsb = Build(S).lsb

C8_Witness ==
    /\ op = "update" /\ delta # 0 /\ Len(trace) >= 2 /\ N >= 3

\* the i of each iteration of a loop that started at `first` and moves by
\* dir * lowest set bit, all inside 1..N, reading lsb as the lowest set bit
WalksByLowestSetBit(tr, first, dir) ==
    /\ Len(tr) >= 1
    /\ tr[1] = first
    /\ \A k \in 1..Len(tr) :
          /\ 1 <= tr[k] /\ tr[k] <= N
          /\ lsb[tr[k]] = LowestSetBit(tr[k])
    /\ \A k \in 1..(Len(tr) - 1) : tr[k + 1] = tr[k] + dir * LowestSetBit(tr[k])

\* C9: for 0 <= index < N the prefix_sum loop lowers i by its lowest set bit
\* down to 0 in exactly popcount(index + 1) <= floor(log2 N) + 1 iterations,
\* the update loop raises i by its lowest set bit until i > N in at most
\* floor(log2 N) + 1 iterations, and every cell either loop touches is in
\* 1..N (1-based).
C9_LoopsWalkByLowestSetBit ==
    /\ (op = "prefix_sum" =>
          /\ ~fault
          /\ WalksByLowestSetBit(trace, args[1] + 1, 0 - 1)
          /\ trace[Len(trace)] = LowestSetBit(trace[Len(trace)])
          /\ Len(trace) = PopCount(args[1] + 1)
          /\ Len(trace) <= FloorLog2(N) + 1)
    /\ (op = "update" =>
          /\ ~fault
          /\ WalksByLowestSetBit(trace, args[1] + 1, 1)
          /\ trace[Len(trace)] + LowestSetBit(trace[Len(trace)]) > N
          /\ Len(trace) <= FloorLog2(N) + 1)

C9_Witness ==
    /\ op = "prefix_sum" /\ Len(trace) = 2 /\ N >= 3

\* C5 (as claimed): range_sum(left, right) with 0 <= right < left < N faults
\* or returns 0.
C5_InvertedRangeFaultsOrZero ==
    (op = "range_sum" /\ args[2] < args[1]) => (fault \/ ret = 0)

\* C7: prefix_sum and range_sum leave tree as it was, whatever the arguments
\* and whether they return or fault, and no call changes lsb or the length
\* of tree and lsb.
C7_Frame ==
    [][/\ lsb' = lsb
       /\ Len(tree') = Len(tree)
       /\ Len(lsb') = Len(tree')
       /\ (op' \in {"prefix_sum", "range_sum"} => tree' = tree)]_vars

C7_Witness ==
    /\ op = "prefix_sum" /\ fault /\ wild > 0

\* C10: an update that faults, whatever its index (in range, >= N, negative),
\* leaves tree as it was before the call: the fault comes before any write.
C10_FaultingUpdateWritesNothing ==
    (op = "update" /\ fault) => (tree = preTree /\ trace = <<>>)

C10_Witness ==
    /\ op = "update" /\ fault /\ args[1] < 0 /\ args[2] # 0 /\ N >= 1

OutOfRange(k) == k < 0 \/ k >= N

\* C4 (as claimed): prefix_sum(index) with index < -1 or index >= N,
\* range_sum with left or right outside [0, N - 1] and update with index
\* outside [0, N - 1] fault and leave tree as it was; every call on the empty
\* structure faults.
C4_OutOfRangeFaults ==
    /\ (op = "prefix_sum" /\ (args[1] < 0 - 1 \/ args[1] >= N) => fault)
    /\ (op = "range_sum" /\ (OutOfRange(args[1]) \/ OutOfRange(args[2])) => fault)
    /\ (op = "update" /\ OutOfRange(args[1]) => fault /\ tree = preTree)
    /\ (op # "build" /\ N = 0 => fault)
====
